---------------------------- MODULE Spec2Model ----------------------------
(***************************************************************************)
(* The RockBLOCK AT-command driver (rockblock.py) run by its command-line  *)
(* front end (rbui.py), against a modem that answers each command with a   *)
(* sequence of raw lines.                                                  *)
(*                                                                         *)
(* Text is a sequence of one-character strings.  A raw line is what        *)
(* port.readline() returns: the text with its line ending, or the empty    *)
(* sequence when the 5 s read timeout elapsed.                             *)
(***************************************************************************)
EXTENDS Integers, Sequences, FiniteSets, TLC

(***************************************************************************)
(* Bounds of the model.                                                    *)
(***************************************************************************)
\* the modem reports a non-clear +SBDSX status at most MaxPending times
\* within one recv_all call
MaxPending == 1
\* the recv poll loop is interrupted (SIGINT) by its MaxPolls-th iteration
MaxPolls == 2

(***************************************************************************)
(* Text helpers: Python str slicing, strip, split, int.                    *)
(***************************************************************************)
CR == <<"\r">>
CRLF == <<"\r", "\n">>
AT == <<"A", "T">>
None == <<"None">>

Min(a, b) == IF a < b THEN a ELSE b

\* s[:n]
Prefix(s, n) == SubSeq(s, 1, Min(n, Len(s)))

\* s[n:]
Suffix(s, n) == IF n >= Len(s) THEN <<>> ELSE SubSeq(s, n + 1, Len(s))

\* s[-1:]
LastChar(s) == IF s = <<>> THEN <<>> ELSE <<s[Len(s)]>>

\* s[:-1]
DropLast(s) == IF s = <<>> THEN <<>> ELSE SubSeq(s, 1, Len(s) - 1)

\* "x" * n
Repeat(c, n) == [k \in 1..n |-> c]

Whitespace == {" ", "\t", "\n", "\r"}

RECURSIVE LStrip(_)
LStrip(s) ==
    IF s # <<>> /\ Head(s) \in Whitespace THEN LStrip(Tail(s)) ELSE s

RECURSIVE RStrip(_)
RStrip(s) ==
    IF s # <<>> /\ s[Len(s)] \in Whitespace THEN RStrip(DropLast(s)) ELSE s

\* str.strip()
Strip(s) == RStrip(LStrip(s))

Digits == <<"0", "1", "2", "3", "4", "5", "6", "7", "8", "9">>

IsDigit(c) == \E d \in 1..10 : Digits[d] = c

DigitVal(c) == (CHOOSE d \in 1..10 : Digits[d] = c) - 1

RECURSIVE DigitsVal(_)
DigitsVal(s) ==
    IF s = <<>> THEN 0 ELSE 10 * DigitsVal(DropLast(s)) + DigitVal(s[Len(s)])

\* int(txt): [ok |-> FALSE] stands for the ValueError int() raises
ParseInt(txt) ==
    LET s == Strip(txt)
        neg == s # <<>> /\ Head(s) = "-"
        body == IF s # <<>> /\ Head(s) \in {"-", "+"} THEN Tail(s) ELSE s
    IN  IF body # <<>> /\ \A k \in 1..Len(body) : IsDigit(body[k])
        THEN [ok |-> TRUE, v |-> IF neg THEN 0 - DigitsVal(body) ELSE DigitsVal(body)]
        ELSE [ok |-> FALSE, v |-> 0]

RECURSIVE Split(_, _)
\* txt.split(sep), sep one character
Split(txt, sep) ==
    IF \E k \in 1..Len(txt) : txt[k] = sep
    THEN LET k == CHOOSE j \in 1..Len(txt) :
                      txt[j] = sep /\ \A h \in 1..(j - 1) : txt[h] # sep
         IN  <<Prefix(txt, k - 1)>> \o Split(Suffix(txt, k), sep)
    ELSE <<txt>>

\* parse_comma_list: [ok |-> FALSE] stands for the ValueError of a bad element
parse_comma_list(txt) ==
    LET elms == Split(txt, ",")
        ints == [k \in 1..Len(elms) |-> ParseInt(elms[k])]
    IN  IF \A k \in 1..Len(elms) : ints[k].ok
        THEN [ok |-> TRUE, list |-> [k \in 1..Len(elms) |-> ints[k].v]]
        ELSE [ok |-> FALSE, list |-> <<>>]

\* "{:d}".format(n), n >= 0
RECURSIVE FmtInt(_)
FmtInt(n) ==
    IF n < 10 THEN <<Digits[n + 1]>> ELSE FmtInt(n \div 10) \o <<Digits[(n % 10) + 1]>>

RECURSIVE FmtList(_)
FmtList(list) ==
    IF Len(list) = 1 THEN FmtInt(list[1])
    ELSE FmtInt(list[1]) \o <<",">> \o FmtList(Tail(list))

(***************************************************************************)
(* Exceptions.  RockBlockException and its subclasses, and the built-in    *)
(* errors the code can raise without meaning to.                           *)
(***************************************************************************)
Exc(type, query, num) == [type |-> type, query |-> query, num |-> num]

NoExc == Exc("none", "", 0)

RockBlockExceptions ==
    {"RBTimeoutError", "DeviceError", "ExpectationFailure",
     "MessageTooLongError", "IncorrectContentLengthError"}

RBTimeoutError(query, num) == Exc("RBTimeoutError", query, num)

DeviceError(error) == Exc("DeviceError", error, 0)

ExpectationFailure == Exc("ExpectationFailure", "", 0)

MessageTooLongError == Exc("MessageTooLongError", "Maximum send size is 360 bytes", 0)

IncorrectContentLengthError(length) == Exc("IncorrectContentLengthError", "", length)


(***************************************************************************)
(* The state.                                                              *)
(***************************************************************************)
VARIABLES
    pc,               \* where the process is
    op,               \* the RockBlock method main is running
    ret,              \* where _read_msg_from_buffer returns to
    args,             \* the parsed command line: [cmd, msg]
    modem,            \* the modem: line discipline, ring alerts, what it will report
                      \* and what it last answered to -MSSTM and +CSQF
    rx,               \* raw lines the modem has sent and the driver has not read
    trace,            \* writes to the port and sleeps, since main called op or, in
                      \* the loop of recv_all, since the iteration began
    msg_log,          \* RockBlock.msg_log: None or a file, and the lines appended to
                      \* it since main called op
    port,             \* ATModem.port: open or not, and how often it was closed
    handler,          \* the disposition of SIGINT
    run,              \* recv_loop.run
    polls,            \* iterations the recv poll loop has begun
    echo,             \* _setup_device's local echo, once the probe has bound it
    verbose,          \* _setup_device's local verbose (both FALSE outside __init__)
    i,                \* the index of the retry loop that is running
    status,           \* the last SBDSXStatus
    sx,               \* the last SBDIXStatus
    mt_len,           \* _read_msg_from_buffer's argument
    incidental_recv,  \* _send_buffer's list
    recv,             \* recv_all's list
    outcome           \* how the last call of op ended

vars == <<pc, op, ret, args, modem, rx, trace, msg_log, port, handler, run, polls,
          echo, verbose, i, status, sx, mt_len, incidental_recv, recv, outcome>>

(***************************************************************************)
(* ATModem: the transport and the AT line layer.  An io record carries the *)
(* unread lines, the trace, the exception raised so far (every step is     *)
(* skipped once one is raised) and the last response.                      *)
(***************************************************************************)
Write(bytes) == [ev |-> "write", bytes |-> bytes, secs |-> 0]

Sleep(secs) == [ev |-> "sleep", bytes |-> <<>>, secs |-> secs]

IO == [rx |-> rx, trace |-> trace, exc |-> NoExc, rsp |-> <<>>]

Raised(io) == io.exc # NoExc

raise(io, e) == IF Raised(io) THEN io ELSE [io EXCEPT !.exc = e]

\* ATModem._raw_write
raw_write(io, msg) ==
    IF Raised(io) THEN io ELSE [io EXCEPT !.trace = Append(@, Write(msg))]

\* time.sleep
sleep(io, secs) ==
    IF Raised(io) THEN io ELSE [io EXCEPT !.trace = Append(@, Sleep(secs))]

\* ATModem.command; `reply` is what the modem sends in answer
command(io, cmd, reply) ==
    IF Raised(io) THEN io
    ELSE [raw_write(io, AT \o cmd \o CR) EXCEPT !.rx = @ \o reply]

\* ATModem._raw_read: the next raw line, or "" when the read times out
raw_read(q) ==
    IF q = <<>> THEN [line |-> <<>>, rx |-> <<>>] ELSE [line |-> Head(q), rx |-> Tail(q)]

RECURSIVE retry_read(_, _)
\* the loop of ATModem.response: up to n more reads while the line is ""
retry_read(r, n) ==
    IF n = 0 \/ r.line # <<>> THEN r ELSE retry_read(raw_read(r.rx), n - 1)

\* ATModem.response
response(io, expect, retry) ==
    IF Raised(io) THEN io
    ELSE LET r == retry_read(raw_read(io.rx), retry)
             rsp == Strip(r.line)
         IN  IF r.line = <<>>
             THEN [io EXCEPT !.rx = r.rx, !.exc = RBTimeoutError("Read", retry)]
             ELSE IF expect # None /\ rsp # expect
             THEN [io EXCEPT !.rx = r.rx, !.exc = ExpectationFailure]
             ELSE [io EXCEPT !.rx = r.rx, !.rsp = rsp]

RSP_OK == <<"0">>

\* the buffer ids swapped
MO_BUF_swapped == <<"1">>

MO_BUF == <<"0">>

MT_BUF_swapped == <<"0">>

MT_BUF == <<"1">>

(***************************************************************************)
(* The modem.  Each reply is a sequence of raw lines.                      *)
(***************************************************************************)
Line(s) == s \o CRLF

Silence == <<>>

\* The answer to a command that only returns a result code, by the echo setting
\* when the command arrives and the verbose setting after it.
SimpleReply(e, v, cmd) ==
    IF v
    THEN <<Line(IF e THEN AT \o cmd \o CR ELSE <<>>), Line(<<"O", "K">>)>>
    ELSE <<(IF e THEN AT \o cmd \o CR ELSE <<>>) \o <<"0">> \o CR>>

cmd_E0 == <<"E", "0">>

cmd_V0 == <<"V", "0">>

\* a mistyped argument: ring alerts enabled
cmd_SBDMTA0_enables == <<"+", "S", "B", "D", "M", "T", "A", "=", "1">>

cmd_SBDMTA0 == <<"+", "S", "B", "D", "M", "T", "A", "=", "0">>

cmd_E1V1 == <<"E", "1", "V", "1">>

\* The modem after a command that changes its settings has arrived.
ModemAfter(m, cmd) ==
    IF cmd = <<"E", "0">> THEN [m EXCEPT !.echo = FALSE]
    ELSE IF cmd = <<"V", "0">> THEN [m EXCEPT !.verbose = FALSE]
    ELSE IF cmd = <<"E", "1", "V", "1">> THEN [m EXCEPT !.echo = TRUE, !.verbose = TRUE]
    ELSE IF cmd = <<"+", "S", "B", "D", "M", "T", "A", "=", "0">> THEN [m EXCEPT !.ring = FALSE]
    ELSE IF cmd = <<"+", "S", "B", "D", "M", "T", "A", "=", "1">> THEN [m EXCEPT !.ring = TRUE]
    ELSE m

\* The answers to the bare AT probe, by line discipline: the rows of the
\* negotiator's table that give this (echo, verbose), and a line of noise.
ProbeReplies(e, v) ==
    (CASE ~e /\ ~v -> {<<Line(<<"0">>)>>}
       [] e /\ ~v  -> {<<Line(<<"A", "T", "\r", "0">>)>>}
       [] e /\ v   -> {<<Line(AT), Line(<<"O", "K">>)>>, <<Line(<<>>), Line(<<"O", "K">>)>>}
       [] ~e /\ v  -> {<<Line(AT), Line(<<"E", "R", "R", "O", "R">>)>>,
                       <<Line(<<>>), Line(<<"E", "R", "R", "O", "R">>)>>})
    \cup {<<Line(<<"4">>)>>}

(***************************************************************************)
(* How an exception leaves the running method: recv_loop swallows          *)
(* RBTimeoutError, nothing else is caught and the process dies.            *)
(***************************************************************************)
PropagateFrom(o, e) ==
    /\ outcome' = [op |-> o, kind |-> "raised", exc |-> e, value |-> <<>>]
    /\ pc' = IF o = "recv_all" /\ e.type = "RBTimeoutError" THEN "recv_sleep"
             ELSE "crashed"

Propagate(e) == PropagateFrom(op, e)

Running(o) == [op |-> o, kind |-> "running", exc |-> NoExc, value |-> <<>>]

Returned(o, v) == [op |-> o, kind |-> "returned", exc |-> NoExc, value |-> v]

\* collections.namedtuple("SBDSXStatus", ...)
SBDSXStatus(l) ==
    [mo |-> l[1], momsn |-> l[2], mt |-> l[3], mtmsn |-> l[4], ra |-> l[5], msg_waiting |-> l[6]]

\* collections.namedtuple("SBDIXStatus", ...)
SBDIXStatus(l) ==
    [mo |-> l[1], momsn |-> l[2], mt |-> l[3], mtmsn |-> l[4], mt_len |-> l[5], mt_queued |-> l[6]]

\* the value of status before the method has assigned it
NoSX == SBDSXStatus(<<-1, -1, -1, -1, -1, -1>>)

NoIX == SBDIXStatus(<<-1, -1, -1, -1, -1, -1>>)

(***************************************************************************)
(* The command line.                                                       *)
(***************************************************************************)
HELLO == <<"H", "E", "L", "L", "O">>

Msgs == {HELLO, Repeat("x", 341), Repeat("x", 361)}

Args == {[cmd |-> "recv", msg |-> <<>>]} \cup {[cmd |-> "send", msg |-> m] : m \in Msgs}

Init ==
    /\ pc = "main"
    /\ op = "none"
    /\ ret = "none"
    /\ args \in Args
    /\ modem \in {[echo |-> e, verbose |-> v, ring |-> r, noservice |-> 0, pending |-> 0,
                     time |-> FALSE, signal |-> 0] :
                    e \in BOOLEAN, v \in BOOLEAN, r \in BOOLEAN}
    /\ rx = <<>>
    /\ trace = <<>>
    /\ msg_log = [file |-> "None", lines |-> <<>>]
    /\ port = [open |-> FALSE, closes |-> 0]
    /\ handler = "SIG_DFL"
    /\ run = TRUE
    /\ polls = 0
    /\ echo = FALSE
    /\ verbose = FALSE
    /\ i = 0
    /\ status = NoSX
    /\ sx = NoIX
    /\ mt_len = -1
    /\ incidental_recv = <<>>
    /\ recv = <<>>
    /\ outcome = Running("none")

(***************************************************************************)
(* RockBlock.__init__ and _setup_device.                                   *)
(***************************************************************************)
\* rb = rockblock.RockBlock(port, log_msg): open the port and the log
RockBlockInit ==
    /\ pc = "main"
    /\ pc' = "setup_probe"
    /\ op' = "__init__"
    /\ port' = [port EXCEPT !.open = TRUE]
    /\ msg_log' = [file |-> "open", lines |-> <<>>]
    /\ trace' = <<>>
    /\ outcome' = Running("__init__")
    /\ UNCHANGED <<ret, args, modem, rx, handler, run, polls, echo, verbose, i,
                   status, sx, mt_len, incidental_recv, recv>>

\* the classification of the probe's first line: the settings, or the need
\* of a second line, or neither local bound
classify(rsp) ==
    IF rsp = <<"0">>
    THEN [bound |-> TRUE, echo |-> FALSE, verbose |-> FALSE, more |-> FALSE]
    ELSE IF rsp = <<"A", "T", "\r", "0">>
    THEN [bound |-> TRUE, echo |-> TRUE, verbose |-> FALSE, more |-> FALSE]
    ELSE IF rsp = AT \/ rsp = <<>>
    THEN [bound |-> FALSE, echo |-> FALSE, verbose |-> FALSE, more |-> TRUE]
    ELSE [bound |-> FALSE, echo |-> FALSE, verbose |-> FALSE, more |-> FALSE]

\* the classification of the second line
classify2(rspp) ==
    IF rspp = <<"O", "K">>
    THEN [bound |-> TRUE, echo |-> TRUE, verbose |-> TRUE, more |-> FALSE]
    ELSE [bound |-> TRUE, echo |-> FALSE, verbose |-> TRUE, more |-> FALSE]

\* V0 issued only inside the echo branch
after_probe_nested(e, v) == IF e THEN "setup_E0" ELSE "setup_MTA"

\* the commands _setup_device has left once echo and verbose are known
after_probe(e, v) == IF e THEN "setup_E0" ELSE IF v THEN "setup_V0" ELSE "setup_MTA"

\* _setup_device, the probe: the empty AT command and the reading of its answer
SetupProbe ==
    /\ pc = "setup_probe"
    /\ \E reply \in ProbeReplies(modem.echo, modem.verbose) :
         LET io1 == response(command(IO, <<>>, reply), None, 0)
             c1 == classify(io1.rsp)
             io2 == IF ~Raised(io1) /\ c1.more THEN response(io1, None, 0) ELSE io1
             c == IF c1.more THEN classify2(io2.rsp) ELSE c1
         IN  /\ rx' = io2.rx
             /\ trace' = io2.trace
             /\ IF Raised(io2)
                THEN Propagate(io2.exc) /\ UNCHANGED <<echo, verbose>>
                ELSE IF ~c.bound
                THEN Propagate(Exc("UnboundLocalError", "echo", 0)) /\ UNCHANGED <<echo, verbose>>
                ELSE /\ echo' = c.echo
                     /\ verbose' = c.verbose
                     /\ pc' = after_probe(c.echo, c.verbose)
                     /\ UNCHANGED outcome
    /\ UNCHANGED <<op, ret, args, modem, msg_log, port, handler, run, polls, i,
                   status, sx, mt_len, incidental_recv, recv>>

\* _setup_device: disable command echoes
SetupE0 ==
    /\ pc = "setup_E0"
    /\ modem' = ModemAfter(modem, cmd_E0)
    /\ \E reply \in {SimpleReply(modem.echo, modem'.verbose, cmd_E0), Silence} :
         LET io1 == command(IO, cmd_E0, reply)
             io2 == IF verbose
                    THEN response(response(io1, AT \o cmd_E0, 0), <<"O", "K">>, 0)
                    ELSE response(io1, AT \o cmd_E0 \o CR \o <<"0">>, 0)
         IN  /\ rx' = io2.rx
             /\ trace' = io2.trace
             /\ IF Raised(io2) THEN Propagate(io2.exc)
                ELSE /\ pc' = IF verbose THEN "setup_V0" ELSE "setup_MTA"
                     /\ UNCHANGED outcome
    /\ UNCHANGED <<op, ret, args, msg_log, port, handler, run, polls, echo, verbose, i,
                   status, sx, mt_len, incidental_recv, recv>>

\* _setup_device: disable verbose responses
SetupV0 ==
    /\ pc = "setup_V0"
    /\ modem' = ModemAfter(modem, cmd_V0)
    /\ \E reply \in {SimpleReply(modem.echo, modem'.verbose, cmd_V0), Silence} :
         LET io1 == response(command(IO, cmd_V0, reply), RSP_OK, 0)
         IN  /\ rx' = io1.rx
             /\ trace' = io1.trace
             /\ IF Raised(io1) THEN Propagate(io1.exc)
                ELSE pc' = "setup_MTA" /\ UNCHANGED outcome
    /\ UNCHANGED <<op, ret, args, msg_log, port, handler, run, polls, echo, verbose, i,
                   status, sx, mt_len, incidental_recv, recv>>

\* _setup_device: disable ring alerts; then __init__ returns
SetupMTA ==
    /\ pc = "setup_MTA"
    /\ modem' = ModemAfter(modem, cmd_SBDMTA0)
    /\ \E reply \in {SimpleReply(modem.echo, modem'.verbose, cmd_SBDMTA0), Silence} :
         LET io1 == response(command(IO, cmd_SBDMTA0, reply), RSP_OK, 0)
         IN  /\ rx' = io1.rx
             /\ trace' = io1.trace
             /\ IF Raised(io1) THEN Propagate(io1.exc)
                ELSE pc' = "main_dispatch" /\ outcome' = Returned("__init__", <<>>)
    /\ UNCHANGED <<op, ret, args, msg_log, port, handler, run, polls, echo, verbose, i,
                   status, sx, mt_len, incidental_recv, recv>>

(***************************************************************************)
(* rbui.main after the constructor.                                        *)
(***************************************************************************)
\* if args.cmd == 'send': ignore SIGINT and send; elif 'recv': enter recv_loop,
\* which installs _stop_recv
MainDispatch ==
    /\ pc = "main_dispatch"
    /\ IF args.cmd = "send"
       THEN handler' = "SIG_IGN" /\ pc' = "send_recv"
       ELSE handler' = "_stop_recv" /\ pc' = "recv_loop"
    /\ echo' = FALSE
    /\ verbose' = FALSE
    /\ UNCHANGED <<op, ret, args, modem, rx, trace, msg_log, port, run, polls,
                   i, status, sx, mt_len, incidental_recv, recv, outcome>>

\* no handler installed: the signal always raises KeyboardInterrupt
Sigint_default ==
    /\ pc \notin {"exit", "crashed"}
    /\ PropagateFrom("main", Exc("KeyboardInterrupt", "", 0))
    /\ UNCHANGED <<op, ret, args, modem, rx, trace, msg_log, port, handler, run, polls, echo,
                   verbose, i, status, sx, mt_len, incidental_recv, recv>>

\* the signal arrives: _stop_recv clears the flag, SIG_IGN drops it, and the
\* default disposition raises KeyboardInterrupt in main
Sigint ==
    /\ pc \notin {"exit", "crashed"}
    /\ IF handler = "_stop_recv"
       THEN run' = FALSE /\ UNCHANGED <<pc, outcome>>
       ELSE IF handler = "SIG_IGN"
       THEN UNCHANGED <<run, pc, outcome>>
       ELSE /\ PropagateFrom("main", Exc("KeyboardInterrupt", "", 0))
            /\ UNCHANGED run
    /\ UNCHANGED <<op, ret, args, modem, rx, trace, msg_log, port, handler, polls, echo,
                   verbose, i, status, sx, mt_len, incidental_recv, recv>>

(***************************************************************************)
(* RockBlock._log_msg                                                      *)
(***************************************************************************)
ts == <<"t", "s">>

\* the message log after _log_msg(data)
log_msg(log, data) ==
    IF log.file # "None"
    THEN [log EXCEPT !.lines = Append(@, ts \o <<" ">> \o data \o <<"\n">>)]
    ELSE log

ARROW_OUT == <<"-", "-", "-", ">", " ">>

ARROW_IN == <<"<", "-", "-", "-", " ">>

(***************************************************************************)
(* send_recv                                                               *)
(***************************************************************************)
MAX_SEND_SIZE == 360

\* the length check of send_recv
too_long(msg) == Len(msg) > MAX_SEND_SIZE

\* send_recv(msg): the length check
SendRecv ==
    /\ pc = "send_recv"
    /\ op' = "send_recv"
    /\ trace' = <<>>
    /\ IF too_long(args.msg)
       THEN PropagateFrom("send_recv", MessageTooLongError)
       ELSE pc' = "write_msg" /\ outcome' = Running("send_recv")
    /\ UNCHANGED <<ret, args, modem, rx, msg_log, port, handler, run, polls, echo,
                   verbose, i, status, sx, mt_len, incidental_recv, recv>>

cmd_SBDWT == <<"+", "S", "B", "D", "W", "T">>

READY == <<"R", "E", "A", "D", "Y">>

SBDWTReplies == {<<Line(READY), Line(<<"0">>), Line(<<"0">>)>>, <<Line(READY), Line(<<"1">>)>>}

\* _write_msg_to_buffer
write_msg_to_buffer(io, msg, reply) ==
    LET io1 == response(command(io, cmd_SBDWT, reply), READY, 0)
        io2 == raw_write(raw_write(io1, msg), CR)
    IN  response(response(io2, RSP_OK, 0), RSP_OK, 0)

WriteMsgToBuffer ==
    /\ pc = "write_msg"
    /\ \E reply \in SBDWTReplies :
         LET io1 == write_msg_to_buffer(IO, args.msg, reply)
         IN  /\ rx' = io1.rx
             /\ trace' = io1.trace
             /\ IF Raised(io1) THEN Propagate(io1.exc)
                ELSE pc' = "msstm_ok" /\ UNCHANGED outcome
    /\ UNCHANGED <<op, ret, args, modem, msg_log, port, handler, run, polls, echo, verbose,
                   i, status, sx, mt_len, incidental_recv, recv>>

(***************************************************************************)
(* _msstm_ok and _check_msstm                                              *)
(***************************************************************************)
TIME_RETRIES == 20

TIME_DELAY == 1

\* how many -MSSTM queries the modem answers "no network service" before it
\* has network time
NetDelays == {0, 1, TIME_RETRIES - 1, TIME_RETRIES}

\* _msstm_ok is entered: the loop starts
MsstmOk ==
    /\ pc = "msstm_ok"
    /\ pc' = "check_msstm"
    /\ i' = 0
    /\ \E d \in NetDelays :
         modem' = [modem EXCEPT !.noservice = d, !.time = FALSE, !.signal = 0]
    /\ UNCHANGED <<op, ret, args, rx, trace, msg_log, port, handler, run, polls, echo,
                   verbose, status, sx, mt_len, incidental_recv, recv, outcome>>

cmd_MSSTM == <<"-", "M", "S", "S", "T", "M">>

pfx_MSSTM == <<"-", "M", "S", "S", "T", "M", ":">>

no_network_service ==
    <<"n", "o", " ", "n", "e", "t", "w", "o", "r", "k", " ", "s", "e", "r", "v", "i", "c", "e">>

MSSTMReplies(m) ==
    {<<Line(pfx_MSSTM \o <<" ">> \o
            (IF m.noservice > 0 THEN no_network_service ELSE <<"1", "2", "a", "b", "c", "d">>)),
       Line(<<"0">>)>>,
     <<Line(<<"4">>), Line(<<"0">>)>>}

\* the modem after it has sent `reply` to -MSSTM: whether that answer gave a
\* network time
AfterMSSTM(m, reply) ==
    [m EXCEPT !.noservice = IF @ > 0 THEN @ - 1 ELSE 0,
              !.time = m.noservice = 0 /\ reply[1] # Line(<<"4">>)]

\* _check_msstm: io.rsp is the answer line when nothing is raised
check_msstm(io, reply) ==
    LET io1 == response(command(io, cmd_MSSTM, reply), None, 0)
        io2 == response(io1, RSP_OK, 0)
    IN  IF Raised(io2) THEN io2
        ELSE IF Prefix(io1.rsp, 7) = pfx_MSSTM
        THEN [io2 EXCEPT !.rsp = io1.rsp]
        ELSE raise(io2, DeviceError("Error querying network time"))

\* what _check_msstm returns
msstm_value(rsp) == Suffix(rsp, 8) # no_network_service

\* the sleep not guarded by the attempt's index
msstm_sleeps_always(k) == TRUE

\* whether the loop of _msstm_ok sleeps after failed attempt i
msstm_sleeps(k) == k < TIME_RETRIES - 1

\* one iteration of the loop of _msstm_ok
CheckMsstm ==
    /\ pc = "check_msstm"
    /\ \E reply \in MSSTMReplies(modem) :
         LET io1 == check_msstm(IO, reply)
             ok == ~Raised(io1) /\ msstm_value(io1.rsp)
             io2 == IF ~ok /\ msstm_sleeps(i) THEN sleep(io1, TIME_DELAY) ELSE io1
         IN  /\ modem' = AfterMSSTM(modem, reply)
             /\ rx' = io2.rx
             /\ trace' = io2.trace
             /\ IF Raised(io2) THEN Propagate(io2.exc) /\ UNCHANGED i
                ELSE IF ok THEN pc' = "check_sig" /\ i' = 0 /\ UNCHANGED outcome
                ELSE /\ i' = i + 1
                     /\ IF i + 1 < TIME_RETRIES THEN UNCHANGED <<pc, outcome>>
                        ELSE Propagate(RBTimeoutError("Network time query", TIME_RETRIES))
    /\ UNCHANGED <<op, ret, args, msg_log, port, handler, run, polls, echo, verbose,
                   status, sx, mt_len, incidental_recv, recv>>

(***************************************************************************)
(* _signal_ok and check_sig_strength                                       *)
(***************************************************************************)
SIGNAL_RETRIES == 3

SIGNAL_DELAY == 10

cmd_CSQF == <<"+", "C", "S", "Q", "F">>

pfx_CSQF == <<"+", "C", "S", "Q", "F", ":">>

SigLevels == {1, 2}

CSQFReplies ==
    {<<Line(pfx_CSQF \o FmtInt(d)), Line(<<"0">>)>> : d \in SigLevels} \cup {<<Line(<<"4">>)>>}

\* the modem after it has sent `reply` to +CSQF: the level of that answer
AfterCSQF(m, reply) ==
    IF \E d \in SigLevels : reply[1] = Line(pfx_CSQF \o FmtInt(d))
    THEN [m EXCEPT !.signal = CHOOSE d \in SigLevels : reply[1] = Line(pfx_CSQF \o FmtInt(d))]
    ELSE m

\* check_sig_strength: io.rsp is the answer line when nothing is raised
check_sig_strength(io, reply) ==
    LET io1 == response(command(io, cmd_CSQF, reply), None, 0)
    IN  IF Raised(io1) THEN io1
        ELSE IF Prefix(io1.rsp, 6) = pfx_CSQF
        THEN IF Len(io1.rsp) < 7 THEN raise(io1, Exc("IndexError", "", 0))
             ELSE IF ~ParseInt(<<io1.rsp[7]>>).ok THEN raise(io1, Exc("ValueError", "", 0))
             ELSE [response(io1, RSP_OK, 0) EXCEPT !.rsp = io1.rsp]
        ELSE raise(io1, DeviceError("Error querying signal strength"))

\* what check_sig_strength returns
strength(rsp) == ParseInt(<<rsp[7]>>).v

\* the threshold one too low
sig_ok_weak(sig) == sig >= 1

\* the test of _signal_ok
sig_ok(sig) == sig >= 2

\* one iteration of the loop of _signal_ok
CheckSigStrength ==
    /\ pc = "check_sig"
    /\ \E reply \in CSQFReplies :
         LET io1 == check_sig_strength(IO, reply)
             ok == ~Raised(io1) /\ sig_ok(strength(io1.rsp))
             io2 == IF ~ok /\ i < SIGNAL_RETRIES - 1 THEN sleep(io1, SIGNAL_DELAY) ELSE io1
         IN  /\ modem' = AfterCSQF(modem, reply)
             /\ rx' = io2.rx
             /\ trace' = io2.trace
             /\ IF Raised(io2) THEN Propagate(io2.exc) /\ UNCHANGED i
                ELSE IF ok
                THEN /\ pc' = IF op = "send_recv" THEN "send_buffer" ELSE "recv_buffer"
                     /\ i' = 0
                     /\ UNCHANGED outcome
                ELSE /\ i' = i + 1
                     /\ IF i + 1 < SIGNAL_RETRIES THEN UNCHANGED <<pc, outcome>>
                        ELSE Propagate(RBTimeoutError("Signal strength query", SIGNAL_RETRIES))
    /\ UNCHANGED <<op, ret, args, msg_log, port, handler, run, polls, echo, verbose,
                   status, sx, mt_len, incidental_recv, recv>>

(***************************************************************************)
(* _check_status, _session, _clear_buffer, _read_msg_from_buffer           *)
(***************************************************************************)
cmd_SBDSX == <<"+", "S", "B", "D", "S", "X">>

pfx_SBDSX == <<"+", "S", "B", "D", "S", "X", ":">>

\* (mt, ra, msg_waiting) of the statuses the modem reports: all clear, and, while
\* it has reported fewer than MaxPending non-clear ones, an MT in the buffer, a
\* ring alert, a message queued at the gateway
StatusFlags(m) ==
    {<<0, 0, 0>>} \cup
    (IF m.pending < MaxPending THEN {<<1, 0, 0>>, <<0, 1, 0>>, <<0, 0, 1>>} ELSE {})

SBDSXReplies(m) ==
    {<<Line(pfx_SBDSX \o FmtList(<<0, 0, f[1], 0, f[2], f[3]>>)), Line(<<"0">>)>> :
        f \in StatusFlags(m)}
    \cup {<<Line(<<"4">>)>>}

\* the modem after it has sent `reply` to +SBDSX
AfterStatus(m, reply) ==
    IF reply \in SBDSXReplies([m EXCEPT !.pending = MaxPending]) THEN m
    ELSE [m EXCEPT !.pending = @ + 1]

\* the exception of building a status tuple from a comma list, if any
tuple_error(io, txt) ==
    LET p == parse_comma_list(txt)
    IN  IF ~p.ok THEN raise(io, Exc("ValueError", "", 0))
        ELSE IF Len(p.list) # 6 THEN raise(io, Exc("TypeError", "", 0))
        ELSE io

\* _check_status: io.rsp is the status line when nothing is raised
check_status(io, reply) ==
    LET io1 == response(command(io, cmd_SBDSX, reply), None, 0)
    IN  IF Raised(io1) THEN io1
        ELSE IF Prefix(io1.rsp, 7) = pfx_SBDSX
        THEN LET io2 == response(io1, RSP_OK, 0)
             IN  IF Raised(io2) THEN io2
                 ELSE [tuple_error(io2, Suffix(io1.rsp, 7)) EXCEPT !.rsp = io1.rsp]
        ELSE raise(io1, DeviceError("Error querying device status"))

\* what _check_status returns
sbdsx_status(rsp) == SBDSXStatus(parse_comma_list(Suffix(rsp, 7)).list)

\* the gateway's queue left out of the test
msg_waiting_no_queue(st) == st.mt = 1 \/ st.ra = 1

\* msg_waiting(status)
msg_waiting(st) == st.mt = 1 \/ st.ra = 1 \/ st.msg_waiting > 0

cmd_SBDIX == <<"+", "S", "B", "D", "I", "X">>

cmd_SBDIXA == <<"+", "S", "B", "D", "I", "X", "A">>

pfx_SBDIX == <<"+", "S", "B", "D", "I", "X", ":">>

pfx_SBDIXA == <<"+", "S", "B", "D", "I", "X", "A", ":">>

SESSION_READ_RETRIES == 5

\* MT payloads
Payloads == {<<"H", "I">>, <<"A", "B", "0">>}

MoCodes == {4, 5}

\* the modem's answers to a session: an MO status code, and no MT or one of a
\* payload's length; or nothing at all
SessionReplies(a) ==
    {<<Line((IF a THEN pfx_SBDIXA ELSE pfx_SBDIX) \o FmtList(<<mo, 7, mt[1], 0, mt[2], 0>>)),
       Line(<<"0">>)>> :
        mo \in MoCodes, mt \in {<<0, 0>>} \cup {<<1, Len(P)>> : P \in Payloads}}
    \cup {Silence}

\* the argument ignored
session_cmd_plain(a) == cmd_SBDIX

\* the command _session issues
session_cmd(a) == IF a THEN cmd_SBDIXA ELSE cmd_SBDIX

\* _session: io.rsp is the status list's text when nothing is raised
session(io, a, reply) ==
    LET io1 == response(command(io, session_cmd(a), reply), None, SESSION_READ_RETRIES)
        io2 == response(io1, RSP_OK, 0)
    IN  IF Raised(io2) THEN io2
        ELSE IF Prefix(io1.rsp, 7) = pfx_SBDIX
        THEN [tuple_error(io2, Suffix(io1.rsp, 7)) EXCEPT !.rsp = Suffix(io1.rsp, 7)]
        ELSE IF Prefix(io1.rsp, 8) = pfx_SBDIXA
        THEN [tuple_error(io2, Suffix(io1.rsp, 8)) EXCEPT !.rsp = Suffix(io1.rsp, 8)]
        ELSE raise(io2, DeviceError("Error initiating satellite session"))

\* what _session returns
sbdix_status(rsp) == SBDIXStatus(parse_comma_list(rsp).list)

cmd_SBDD == <<"+", "S", "B", "D", "D">>

ClearReplies == {<<Line(<<"0">>), Line(<<"0">>)>>, <<Line(<<"1">>)>>}

\* _clear_buffer
clear_buffer(io, buf_id, reply) ==
    response(response(command(io, cmd_SBDD \o buf_id, reply), RSP_OK, 0), RSP_OK, 0)

cmd_SBDRT == <<"+", "S", "B", "D", "R", "T">>

pfx_SBDRT == <<"+", "S", "B", "D", "R", "T", ":">>

\* the modem's answers to +SBDRT: a payload with the result code stuck to it, a
\* payload without, an error code
SBDRTReplies ==
    {<<Line(pfx_SBDRT), Line(P \o <<"0">>)>> : P \in Payloads}
    \cup {<<Line(pfx_SBDRT), Line(<<"H", "I">>)>>, <<Line(<<"4">>)>>}

\* the expected length not compared
accepts_any_length(cont, len) == LastChar(cont) = <<"0">>

\* the acceptance test of _read_msg_from_buffer
accepts(cont, len) == LastChar(cont) = <<"0">> /\ (len = -1 \/ Len(cont) = len + 1)

\* _read_msg_from_buffer: [io, log, msg]
read_msg_from_buffer(io, log, len, reply, reply2) ==
    LET io1 == response(command(io, cmd_SBDRT, reply), None, 0)
        io2 == response(io1, None, 0)
        cont == io2.rsp
        msg == DropLast(cont)
    IN  IF Raised(io1) THEN [io |-> io1, log |-> log, msg |-> <<>>]
        ELSE IF Prefix(io1.rsp, 7) # pfx_SBDRT
        THEN [io |-> raise(io1, DeviceError("Error reading message from device buffer")),
              log |-> log, msg |-> <<>>]
        ELSE IF Raised(io2) THEN [io |-> io2, log |-> log, msg |-> <<>>]
        ELSE IF accepts(cont, len)
        THEN [io |-> clear_buffer(io2, MT_BUF, reply2),
              log |-> log_msg(log, ARROW_IN \o msg), msg |-> msg]
        ELSE [io |-> raise(io2, IncorrectContentLengthError(len)), log |-> log, msg |-> <<>>]

\* list.insert(0, msg)
append_in_front(list, msg) == <<msg>> \o list

\* list.append(msg)
append(list, msg) == Append(list, msg)

\* _read_msg_from_buffer(mt_len), and the caller's append of what it returns
ReadMsgFromBuffer ==
    /\ pc = "read_msg"
    /\ \E reply \in SBDRTReplies, reply2 \in ClearReplies :
         LET r == read_msg_from_buffer(IO, msg_log, mt_len, reply, reply2)
         IN  /\ rx' = r.io.rx
             /\ trace' = r.io.trace
             /\ msg_log' = r.log
             /\ IF Raised(r.io)
                THEN Propagate(r.io.exc) /\ UNCHANGED <<incidental_recv, recv>>
                ELSE /\ pc' = ret
                     /\ IF op = "send_recv"
                        THEN incidental_recv' = append(incidental_recv, r.msg) /\ UNCHANGED recv
                        ELSE recv' = append(recv, r.msg) /\ UNCHANGED incidental_recv
                     /\ UNCHANGED outcome
    /\ UNCHANGED <<op, ret, args, modem, port, handler, run, polls, echo, verbose, i,
                   status, sx, mt_len>>

(***************************************************************************)
(* _send_buffer                                                            *)
(***************************************************************************)
\* one attempt too many
SESSION_RETRIES_more == 3 + 1

SESSION_RETRIES == 3

SESSION_DELAY == 1

\* _send_buffer up to its loop: the check for a message left in the MT buffer
SendBuffer ==
    /\ pc = "send_buffer"
    /\ incidental_recv' = <<>>
    /\ i' = 0
    /\ \E reply \in SBDSXReplies([modem EXCEPT !.pending = 0]) :
         LET io1 == check_status(IO, reply)
         IN  /\ rx' = io1.rx
             /\ trace' = io1.trace
             /\ IF Raised(io1) THEN Propagate(io1.exc) /\ UNCHANGED <<mt_len, ret>>
                ELSE IF sbdsx_status(io1.rsp).mt = 1
                THEN pc' = "read_msg" /\ mt_len' = -1 /\ ret' = "session" /\ UNCHANGED outcome
                ELSE pc' = "session" /\ UNCHANGED <<mt_len, ret, outcome>>
    /\ UNCHANGED <<op, args, modem, msg_log, port, handler, run, polls, echo, verbose,
                   status, sx, recv>>

\* the loop of _send_buffer: the session, and the call to read an MT it brought
SendSession ==
    /\ pc = "session"
    /\ \E reply \in SessionReplies(FALSE) :
         LET io1 == session(IO, FALSE, reply)
         IN  /\ rx' = io1.rx
             /\ trace' = io1.trace
             /\ IF Raised(io1) THEN Propagate(io1.exc) /\ UNCHANGED <<sx, mt_len, ret>>
                ELSE /\ sx' = sbdix_status(io1.rsp)
                     /\ IF sx'.mt = 1
                        THEN pc' = "read_msg" /\ mt_len' = sx'.mt_len /\ ret' = "session_mo"
                        ELSE pc' = "session_mo" /\ UNCHANGED <<mt_len, ret>>
                     /\ UNCHANGED outcome
    /\ UNCHANGED <<op, args, modem, msg_log, port, handler, run, polls, echo, verbose, i,
                   status, incidental_recv, recv>>

\* the boundary off by one
mo_ok_off_by_one(st) == st.mo <= 5

\* the test that ends the loop of _send_buffer
mo_ok(st) == st.mo <= 4

\* the loop of _send_buffer: the MO status decides between leaving the loop,
\* another attempt and giving up
SendSessionCheck ==
    /\ pc = "session_mo"
    /\ IF mo_ok(sx)
       THEN pc' = "clear_mo" /\ UNCHANGED <<i, trace, outcome>>
       ELSE /\ trace' = Append(trace, Sleep(SESSION_DELAY))
            /\ i' = i + 1
            /\ IF i + 1 < SESSION_RETRIES THEN pc' = "session" /\ UNCHANGED outcome
               ELSE Propagate(RBTimeoutError("Buffer send", SESSION_RETRIES))
    /\ UNCHANGED <<op, ret, args, modem, rx, msg_log, port, handler, run, polls, echo,
                   verbose, status, sx, mt_len, incidental_recv, recv>>

\* _send_buffer clears the MO buffer and returns; send_recv logs the message
\* and returns the incidental messages
SendBufferClear ==
    /\ pc = "clear_mo"
    /\ \E reply \in ClearReplies :
         LET io1 == clear_buffer(IO, MO_BUF, reply)
         IN  /\ rx' = io1.rx
             /\ trace' = io1.trace
             /\ IF Raised(io1) THEN Propagate(io1.exc) /\ UNCHANGED msg_log
                ELSE /\ msg_log' = log_msg(msg_log, ARROW_OUT \o args.msg)
                     /\ outcome' = Returned("send_recv", incidental_recv)
                     /\ pc' = "close"
    /\ UNCHANGED <<op, ret, args, modem, port, handler, run, polls, echo, verbose, i,
                   status, sx, mt_len, incidental_recv, recv>>

(***************************************************************************)
(* close and _reset_device                                                 *)
(***************************************************************************)
\* _reset_device
reset_device(io, reply) ==
    response(response(command(io, cmd_E1V1, reply), <<>>, 0), <<"O", "K">>, 0)

\* rb.close(): revert to echo and verbose, close the port and the log; main ends
Close ==
    /\ pc = "close"
    /\ op' = "close"
    /\ modem' = ModemAfter(modem, cmd_E1V1)
    /\ \E reply \in {SimpleReply(modem.echo, modem'.verbose, cmd_E1V1), Silence} :
         LET io1 == reset_device([IO EXCEPT !.trace = <<>>], reply)
         IN  /\ rx' = io1.rx
             /\ trace' = io1.trace
             /\ IF Raised(io1)
                THEN PropagateFrom("close", io1.exc) /\ UNCHANGED <<port, msg_log>>
                ELSE /\ port' = [open |-> FALSE, closes |-> port.closes + 1]
                     /\ msg_log' = [msg_log EXCEPT !.file = "closed"]
                     /\ outcome' = Returned("close", <<>>)
                     /\ pc' = "exit"
    /\ UNCHANGED <<ret, args, handler, run, polls, echo, verbose, i, status, sx, mt_len,
                   incidental_recv, recv>>

(***************************************************************************)
(* recv_loop, recv_all and _recv_buffer                                    *)
(***************************************************************************)
\* while recv_loop.run: ... ; the loop ends and main goes on to rb.close()
RecvLoop ==
    /\ pc = "recv_loop"
    /\ IF run
       THEN polls < MaxPolls /\ polls' = polls + 1 /\ pc' = "recv_all"
       ELSE pc' = "close" /\ UNCHANGED polls
    /\ UNCHANGED <<op, ret, args, modem, rx, trace, msg_log, port, handler, run, echo,
                   verbose, i, status, sx, mt_len, incidental_recv, recv, outcome>>

\* recv_all up to its loop, in a fresh frame
RecvAll ==
    /\ pc = "recv_all"
    /\ op' = "recv_all"
    /\ recv' = <<>>
    /\ \E reply \in SBDSXReplies([modem EXCEPT !.pending = 0]) :
         LET io1 == check_status([IO EXCEPT !.trace = <<>>], reply)
         IN  /\ rx' = io1.rx
             /\ trace' = io1.trace
             /\ modem' = AfterStatus([modem EXCEPT !.pending = 0], reply)
             /\ IF Raised(io1) THEN PropagateFrom("recv_all", io1.exc) /\ UNCHANGED status
                ELSE /\ status' = sbdsx_status(io1.rsp)
                     /\ pc' = "drain"
                     /\ outcome' = Running("recv_all")
    /\ msg_log' = [msg_log EXCEPT !.lines = <<>>]
    /\ i' = 0
    /\ sx' = NoIX
    /\ mt_len' = -1
    /\ ret' = "none"
    /\ UNCHANGED <<args, port, handler, run, polls, echo, verbose, incidental_recv>>

\* the loop of recv_all: its test, and the branch on status.mt
Drain ==
    /\ pc = "drain"
    /\ IF msg_waiting(status)
       THEN /\ IF status.mt = 1
               THEN pc' = "read_msg" /\ mt_len' = -1 /\ ret' = "recv_status"
               ELSE pc' = "msstm_ok" /\ UNCHANGED <<mt_len, ret>>
            /\ trace' = <<>>
            /\ UNCHANGED outcome
       ELSE /\ outcome' = Returned("recv_all", recv)
            /\ pc' = "recv_sleep"
            /\ UNCHANGED <<mt_len, ret, trace>>
    /\ UNCHANGED <<op, args, modem, rx, msg_log, port, handler, run, polls, echo,
                   verbose, i, status, sx, incidental_recv, recv>>

\* one iteration of the loop of _recv_buffer, and the call that reads the MT
RecvBuffer ==
    /\ pc = "recv_buffer"
    /\ \E reply \in SessionReplies(status.ra # 0) :
         LET io1 == session(IO, status.ra # 0, reply)
             got == ~Raised(io1) /\ sbdix_status(io1.rsp).mt = 1
             io2 == IF got THEN io1 ELSE sleep(io1, SESSION_DELAY)
         IN  /\ rx' = io2.rx
             /\ trace' = io2.trace
             /\ IF Raised(io2) THEN Propagate(io2.exc) /\ UNCHANGED <<sx, i, mt_len, ret>>
                ELSE /\ sx' = sbdix_status(io1.rsp)
                     /\ IF got
                        THEN /\ pc' = "read_msg"
                             /\ mt_len' = sx'.mt_len
                             /\ ret' = "recv_status"
                             /\ UNCHANGED <<i, outcome>>
                        ELSE /\ i' = i + 1
                             /\ UNCHANGED <<mt_len, ret>>
                             /\ IF i + 1 < SESSION_RETRIES THEN UNCHANGED <<pc, outcome>>
                                ELSE Propagate(RBTimeoutError("Buffer recv", SESSION_RETRIES))
    /\ UNCHANGED <<op, args, modem, msg_log, port, handler, run, polls, echo, verbose,
                   status, incidental_recv, recv>>

\* the status query that ends an iteration of the loop of recv_all; the locals of
\* the calls the iteration made are gone
RecvStatus ==
    /\ pc = "recv_status"
    /\ \E reply \in SBDSXReplies(modem) :
         LET io1 == check_status(IO, reply)
         IN  /\ rx' = io1.rx
             /\ trace' = io1.trace
             /\ modem' = AfterStatus(modem, reply)
             /\ IF Raised(io1) THEN Propagate(io1.exc) /\ UNCHANGED status
                ELSE status' = sbdsx_status(io1.rsp) /\ pc' = "drain" /\ UNCHANGED outcome
    /\ i' = 0
    /\ sx' = NoIX
    /\ mt_len' = -1
    /\ ret' = "none"
    /\ UNCHANGED <<op, args, msg_log, port, handler, run, polls, echo, verbose,
                   incidental_recv, recv>>

POLL_DELAY == 10

\* recv_loop after recv_all has returned or raised RBTimeoutError
RecvSleep ==
    /\ pc = "recv_sleep"
    /\ trace' = Append(trace, Sleep(POLL_DELAY))
    /\ pc' = "recv_loop"
    /\ UNCHANGED <<op, ret, args, modem, rx, msg_log, port, handler, run, polls, echo,
                   verbose, i, status, sx, mt_len, incidental_recv, recv, outcome>>

Next ==
    \/ RockBlockInit
    \/ SetupProbe
    \/ SetupE0
    \/ SetupV0
    \/ SetupMTA
    \/ MainDispatch
    \/ Sigint
    \/ SendRecv
    \/ WriteMsgToBuffer
    \/ MsstmOk
    \/ CheckMsstm
    \/ CheckSigStrength
    \/ SendBuffer
    \/ SendSession
    \/ SendSessionCheck
    \/ SendBufferClear
    \/ ReadMsgFromBuffer
    \/ Close
    \/ RecvLoop
    \/ RecvAll
    \/ Drain
    \/ RecvBuffer
    \/ RecvStatus
    \/ RecvSleep

Spec == Init /\ [][Next]_vars

(***************************************************************************)
(* The driver's methods called one at a time: the arguments and the raw    *)
(* lines the port will deliver are drawn at the start, the method runs in  *)
(* one step, and outcome holds what it returned or raised.                 *)
(***************************************************************************)
\* raw lines: a read that times out, a blank line
TIMEOUT == <<>>

BLANK == CRLF

\* MT payloads: empty, with a leading space, with a trailing space, ending in
\* '0', plain
CallPayloads == {<<>>, <<" ", "H">>, <<"H", " ">>, <<"H", "0">>, <<"H", "I">>}

\* what the port delivers to _read_msg_from_buffer after +SBDRT: the header or
\* an error code, then a payload with the '0' stuck to it, a payload without,
\* a blank line or nothing
ReadMsgInputs ==
    {<<Line(h), c>> :
        h \in {pfx_SBDRT, <<"4">>},
        c \in {Line(P \o <<"0">>) : P \in CallPayloads} \cup {Line(<<"H", "I">>), BLANK, TIMEOUT}}

ReadMsgLens == {-1, 0, 1, 2, 3}

ReadMsgCalls ==
    {[cmd |-> "_read_msg_from_buffer", mt_len |-> n, reply |-> r, reply2 |-> r2] :
        n \in ReadMsgLens, r \in ReadMsgInputs, r2 \in ClearReplies}

\* what the port delivers to three reads in a row
RawLines == {TIMEOUT, BLANK, Line(<<"0">>), Line(<<"O", "K">>)}

ResponseInputs == {<<l1, l2, l3>> : l1 \in RawLines, l2 \in RawLines, l3 \in RawLines}

ResponseCalls ==
    {[cmd |-> "response", expect |-> e, retry |-> n, lines |-> ls] :
        e \in {None, <<>>, <<"0">>}, n \in {0, 1, 2}, ls \in ResponseInputs}

\* the status lists of a session that sent, and of one that received two bytes
SessionLists == {<<0, 7, 0, 0, 0, 0>>, <<5, 7, 1, 3, 2, 0>>}

\* how many lines can come before the status line
MaxFill == 6

\* what the port delivers to _session: k blank lines or k reads that time out,
\* then the status line and the result code
SessionInputs(a) ==
    {[j \in 1..k |-> fill] \o
     <<Line((IF a THEN pfx_SBDIXA ELSE pfx_SBDIX) \o <<" ">> \o FmtList(l)), Line(<<"0">>)>> :
        k \in 0..MaxFill, fill \in {BLANK, TIMEOUT}, l \in SessionLists}

SessionCalls ==
    UNION {{[cmd |-> "_session", a |-> a, reply |-> r] : r \in SessionInputs(a)} :
             a \in BOOLEAN}

\* what the port delivers to check_sig_strength: the level and the result code
CSQFGood == {<<Line(pfx_CSQF \o FmtInt(d)), Line(<<"0">>)>> : d \in 0..5}

\* ... or no digit after the prefix, no prefix, another result code
CSQFBad ==
    {<<Line(pfx_CSQF), Line(<<"0">>)>>,
     <<Line(pfx_CSQF \o <<"x">>), Line(<<"0">>)>>,
     <<Line(<<"4">>)>>,
     <<Line(<<"+", "C", "S", "Q", ":", "3">>), Line(<<"0">>)>>,
     <<Line(pfx_CSQF \o <<"3">>), Line(<<"4">>)>>}

SigCalls == {[cmd |-> "check_sig_strength", reply |-> r] : r \in CSQFGood \cup CSQFBad}

Calls == ReadMsgCalls \cup ResponseCalls \cup SessionCalls \cup SigCalls

CallInit ==
    /\ pc = "call"
    /\ op = "none"
    /\ ret = "none"
    /\ args \in Calls
    /\ modem = [echo |-> FALSE, verbose |-> FALSE, ring |-> FALSE, noservice |-> 0,
                pending |-> 0, time |-> FALSE, signal |-> 0]
    /\ rx = <<>>
    /\ trace = <<>>
    /\ msg_log = [file |-> "open", lines |-> <<>>]
    /\ port = [open |-> TRUE, closes |-> 0]
    /\ handler = "SIG_DFL"
    /\ run = TRUE
    /\ polls = 0
    /\ echo = FALSE
    /\ verbose = FALSE
    /\ i = 0
    /\ status = NoSX
    /\ sx = NoIX
    /\ mt_len = -1
    /\ incidental_recv = <<>>
    /\ recv = <<>>
    /\ outcome = Running("none")

\* how the call ended
Ended(io, value) ==
    IF Raised(io)
    THEN [op |-> args.cmd, kind |-> "raised", exc |-> io.exc, value |-> <<>>]
    ELSE Returned(args.cmd, value)

\* self._read_msg_from_buffer(mt_len)
CallReadMsgFromBuffer ==
    /\ pc = "call"
    /\ args.cmd = "_read_msg_from_buffer"
    /\ LET r == read_msg_from_buffer(IO, msg_log, args.mt_len, args.reply, args.reply2)
       IN  /\ rx' = r.io.rx
           /\ trace' = r.io.trace
           /\ msg_log' = r.log
           /\ outcome' = Ended(r.io, r.msg)
    /\ pc' = "called"
    /\ UNCHANGED <<op, ret, args, modem, port, handler, run, polls, echo, verbose, i,
                   status, sx, mt_len, incidental_recv, recv>>

\* self.mod.response(expect, retry)
CallResponse ==
    /\ pc = "call"
    /\ args.cmd = "response"
    /\ LET io1 == response([IO EXCEPT !.rx = args.lines], args.expect, args.retry)
       IN  /\ rx' = io1.rx
           /\ trace' = io1.trace
           /\ outcome' = Ended(io1, io1.rsp)
    /\ pc' = "called"
    /\ UNCHANGED <<op, ret, args, modem, msg_log, port, handler, run, polls, echo, verbose,
                   i, status, sx, mt_len, incidental_recv, recv>>

\* self._session(a)
CallSession ==
    /\ pc = "call"
    /\ args.cmd = "_session"
    /\ LET io1 == session(IO, args.a, args.reply)
       IN  /\ rx' = io1.rx
           /\ trace' = io1.trace
           /\ outcome' = Ended(io1, io1.rsp)
           /\ sx' = IF Raised(io1) THEN sx ELSE sbdix_status(io1.rsp)
    /\ pc' = "called"
    /\ UNCHANGED <<op, ret, args, modem, msg_log, port, handler, run, polls, echo, verbose,
                   i, status, mt_len, incidental_recv, recv>>

\* self.check_sig_strength()
CallCheckSigStrength ==
    /\ pc = "call"
    /\ args.cmd = "check_sig_strength"
    /\ LET io1 == check_sig_strength(IO, args.reply)
       IN  /\ rx' = io1.rx
           /\ trace' = io1.trace
           /\ outcome' = Ended(io1, <<strength(io1.rsp)>>)
    /\ pc' = "called"
    /\ UNCHANGED <<op, ret, args, modem, msg_log, port, handler, run, polls, echo, verbose,
                   i, status, sx, mt_len, incidental_recv, recv>>

CallNext ==
    \/ CallReadMsgFromBuffer
    \/ CallCheckSigStrength
    \/ CallSession
    \/ CallResponse

CallSpec == CallInit /\ [][CallNext]_vars

(***************************************************************************)
(* Reading the trace.                                                      *)
(***************************************************************************)
IsCmd(e, cmd) == e.ev = "write" /\ e.bytes = AT \o cmd \o CR

IsSleep(e) == e.ev = "sleep"

CmdAt(k, cmd) == k \in 1..Len(trace) /\ IsCmd(trace[k], cmd)

CountCmd(t, cmd) == Cardinality({k \in 1..Len(t) : IsCmd(t[k], cmd)})

Issued(cmd) == CountCmd(trace, cmd) > 0

LastIs(cmd) == CmdAt(Len(trace), cmd)

txt_SBDMTA0 == <<"+", "S", "B", "D", "M", "T", "A", "=", "0">>

txt_SBDD0 == <<"+", "S", "B", "D", "D", "0">>

txt_SBDD1 == <<"+", "S", "B", "D", "D", "1">>

Constructed == outcome = Returned("__init__", <<>>)

SendReturned == outcome.op = "send_recv" /\ outcome.kind = "returned"

RecvReturned == outcome.op = "recv_all" /\ outcome.kind = "returned"

InLine(m) == ts \o <<" ", "<", "-", "-", "-", " ">> \o m \o <<"\n">>

OutLine(m) == ts \o <<" ", "-", "-", "-", ">", " ">> \o m \o <<"\n">>

IsOutLine(l) == Prefix(l, 8) = ts \o <<" ", "-", "-", "-", ">", " ">>

(***************************************************************************)
(* The claims.                                                             *)
(***************************************************************************)

\* C1: once send_recv has been called with a message of more than 340
\* characters, it has failed with MessageTooLong and nothing has been written
\* to the port.
C1_TooLongRejected ==
    (op = "send_recv" /\ Len(args.msg) > 340) =>
        /\ outcome = [op |-> "send_recv", kind |-> "raised",
                      exc |-> MessageTooLongError, value |-> <<>>]
        /\ trace = <<>>

\* C2: whenever the constructor has returned, the modem has echo off, verbose
\* off and ring alerts disabled, and +SBDMTA=0 is the last command issued.
C2_ConstructedQuiet ==
    Constructed =>
        /\ ~modem.echo
        /\ ~modem.verbose
        /\ ~modem.ring
        /\ LastIs(txt_SBDMTA0)

\* the constructor has returned on a modem it found in echo and verbose mode
C2_Witness == pc = "main_dispatch" /\ Constructed /\ echo /\ verbose

\* C3, as stated: after construction, E0 and V0 have both been issued if and
\* only if the probe implied echo or verbose, and +SBDMTA=0 has been issued.
C3_BothIffEither ==
    (pc = "main_dispatch" /\ Constructed) =>
        /\ (Issued(cmd_E0) /\ Issued(cmd_V0)) <=> (echo \/ verbose)
        /\ Issued(txt_SBDMTA0)

\* C3, amended: once _setup_device is past E0 and V0, and so after
\* construction, E0 has been issued if and only if the probe implied echo and V0
\* if and only if it implied verbose, each at most once; after construction
\* +SBDMTA=0 has been issued.
C3_EachIffOwn ==
    /\ pc \in {"setup_MTA", "main_dispatch"} =>
        /\ CountCmd(trace, cmd_E0) = (IF echo THEN 1 ELSE 0)
        /\ CountCmd(trace, cmd_V0) = (IF verbose THEN 1 ELSE 0)
    /\ (pc = "main_dispatch" /\ Constructed) => Issued(txt_SBDMTA0)

\* the constructor has returned after a probe that implied echo and not verbose
C3_Witness == pc = "main_dispatch" /\ Constructed /\ echo /\ ~verbose /\ Issued(cmd_E0)

\* C4: in send_recv and recv_all, unless the operation has raised, every
\* +SBDRT in the trace is followed by +SBDD1 as the very next command; so it is
\* when the operation returns.
C4_ReadThenClear ==
    (outcome.op \in {"send_recv", "recv_all"} /\ outcome.kind # "raised") =>
        \A k \in 1..Len(trace) :
            IsCmd(trace[k], cmd_SBDRT) => CmdAt(k + 1, txt_SBDD1)

\* send_recv has returned after reading an incidental message
C4_Witness == SendReturned /\ Issued(cmd_SBDRT) /\ Issued(txt_SBDD1)

\* C5: when send_recv has returned, and so _send_buffer has, exactly one
\* +SBDD0 has been issued, it is the last command, and a +SBDIX session
\* precedes it.
C5_OneClearAfterSessions ==
    SendReturned =>
        /\ CountCmd(trace, txt_SBDD0) = 1
        /\ LastIs(txt_SBDD0)
        /\ Issued(cmd_SBDIX)

\* send_recv has returned after two sessions, the second with an incidental read
C5_Witness ==
    /\ SendReturned
    /\ CountCmd(trace, cmd_SBDIX) = 2
    /\ CmdAt(Len(trace) - 1, txt_SBDD1)

\* the third session of the send has returned, and reported mo > 4 as the two
\* before it did: the third +SBDIX is not the last event of the trace
ThreeSessionsFailed ==
    /\ op = "send_recv"
    /\ CountCmd(trace, cmd_SBDIX) = 3
    /\ ~LastIs(cmd_SBDIX)
    /\ sx.mo > 4

NoOutLine(log) == \A k \in 1..Len(log.lines) : ~IsOutLine(log.lines[k])

BufferSendTimeout ==
    [op |-> "send_recv", kind |-> "raised",
     exc |-> Exc("RBTimeoutError", "Buffer send", 3), value |-> <<>>]

C6_State ==
    ThreeSessionsFailed =>
        /\ outcome.kind # "returned"
        /\ pc \in {"read_msg", "session_mo", "crashed"}
        /\ outcome.kind = "raised" <=> pc = "crashed"
        /\ CountCmd(trace, txt_SBDD0) = 0
        /\ NoOutLine(msg_log)

\* C6, amended: when the incidental read of the third session, if there was
\* one, has succeeded, the error raised is Timeout("Buffer send", 3).
C6_Step ==
    (pc = "session_mo" /\ ThreeSessionsFailed) =>
        /\ outcome' = BufferSendTimeout
        /\ pc' = "crashed"
        /\ CountCmd(trace', cmd_SBDIX) = 3

MsstmSleepAt(k) ==
    /\ k > 1
    /\ IsCmd(trace[k - 1], cmd_MSSTM)
    /\ IsSleep(trace[k])
    /\ trace[k].secs = TIME_DELAY

\* C7: _msstm_ok issues at most 20 -MSSTM and sleeps at most 19 times, never
\* after the 20th; when the 20th attempt too has reported no network service
\* it has raised a Timeout with attempts = 20 and makes no further attempt.
C7_State ==
    /\ CountCmd(trace, cmd_MSSTM) <= 20
    /\ Cardinality({k \in 1..Len(trace) : MsstmSleepAt(k)}) <= 19
    /\ \A k \in 1..Len(trace) :
         MsstmSleepAt(k) => CountCmd(SubSeq(trace, 1, k), cmd_MSSTM) < 20
    /\ (CountCmd(trace, cmd_MSSTM) = 20 /\ i = 20) =>
         /\ outcome.kind = "raised"
         /\ outcome.exc.type = "RBTimeoutError"
         /\ outcome.exc.num = 20
         /\ pc # "check_msstm"

\* C7: it stops at the first attempt that reports network service: a query the
\* modem answers with a network time is the last of the call.
C7_Step ==
    (pc = "check_msstm" /\ modem.noservice = 0 /\ trace' # trace) => pc' # "check_msstm"

C7_MsstmBounded == []C7_State /\ [][C7_Step]_vars

\* all 20 attempts have failed
C7_Witness ==
    /\ CountCmd(trace, cmd_MSSTM) = 20
    /\ Cardinality({k \in 1..Len(trace) : MsstmSleepAt(k)}) = 19
    /\ outcome.exc = Exc("RBTimeoutError", "Network time query", 20)

AllClear(st) == st.mt = 0 /\ st.ra = 0 /\ st.msg_waiting = 0

C8_State == RecvReturned => AllClear(status)

C8_Step ==
    (pc = "drain" /\ pc' # "drain") =>
        IF AllClear(status)
        THEN outcome' = Returned("recv_all", recv) /\ pc' = "recv_sleep"
        ELSE outcome' = outcome /\ pc' \in {"read_msg", "msstm_ok"}

C9_State ==
    SendReturned =>
        LET v == outcome.value
        IN  /\ msg_log.lines = [k \in 1..Len(v) |-> InLine(v[k])] \o <<OutLine(args.msg)>>
            /\ CountCmd(trace, cmd_SBDRT) = Len(v)
            /\ sx.mt = 1 =>
                 /\ CmdAt(Len(trace) - 3, cmd_SBDIX)
                 /\ CmdAt(Len(trace) - 2, cmd_SBDRT)
                 /\ v # <<>>
                 /\ Len(v[Len(v)]) = sx.mt_len

\* C9: a session of the send that returns is followed by the read of an MT
\* exactly if it reported mt = 1, and a read that succeeds adds its message at
\* the end of the incidental list and its "<---" line at the end of the log.
C9_Step ==
    /\ (pc = "session" /\ pc' # "crashed") => (sx'.mt = 1 <=> pc' = "read_msg")
    /\ (op = "send_recv" /\ pc = "read_msg" /\ pc' # "crashed") =>
         /\ Len(incidental_recv') = Len(incidental_recv) + 1
         /\ SubSeq(incidental_recv', 1, Len(incidental_recv)) = incidental_recv
         /\ msg_log'.lines = Append(msg_log.lines, InLine(incidental_recv'[Len(incidental_recv')]))
         /\ CountCmd(trace', cmd_SBDRT) = CountCmd(trace, cmd_SBDRT) + 1

C9_IncidentalsLoggedFirst == []C9_State /\ [][C9_Step]_vars

\* send_recv has returned two different incidental messages
C9_Witness ==
    /\ SendReturned
    /\ Len(outcome.value) = 2
    /\ outcome.value[1] # outcome.value[2]
    /\ sx.mt = 1

\* C10: when the process has ended after the constructor returned the driver,
\* the port has been closed exactly once.
C10_ClosedOnce ==
    (pc \in {"exit", "crashed"} /\ op \in {"send_recv", "recv_all", "close"}) =>
        port.closes = 1 /\ ~port.open

\* C11: when the port has delivered the +SBDRT header and the content line of a
\* payload P followed by '0', and the clear of the MT buffer has succeeded,
\* _read_msg_from_buffer called with the expected length Len(P) or with none has
\* returned exactly P.
C11_RoundTrip ==
    (pc = "called" /\ args.cmd = "_read_msg_from_buffer") =>
        \A P \in CallPayloads :
            (/\ args.reply = <<Line(pfx_SBDRT), Line(P \o <<"0">>)>>
             /\ args.mt_len \in {-1, Len(P)}
             /\ args.reply2 = <<Line(<<"0">>), Line(<<"0">>)>>)
            => outcome = Returned("_read_msg_from_buffer", P)

\* the number of reads a call of response has made of the lines it was given
Reads == Len(args.lines) - Len(rx)

ReadTimeout(n) == [op |-> "response", kind |-> "raised",
                   exc |-> Exc("RBTimeoutError", "Read", n), value |-> <<>>]

\* C12: response(expect, retry = n) has made at most n + 1 reads, all empty but
\* the last; it has raised Timeout("Read", n) only when n > 0 and all n + 1
\* reads were empty; and with n = 0 an empty read is no error: the empty string
\* is returned, or compared with expect.
C12_EmptyReadNoErrorWithoutRetry ==
    (pc = "called" /\ args.cmd = "response") =>
        /\ Reads \in 1..(args.retry + 1)
        /\ \A k \in 1..(Reads - 1) : args.lines[k] = TIMEOUT
        /\ outcome = ReadTimeout(args.retry) =>
             /\ args.retry > 0
             /\ \A k \in 1..(args.retry + 1) : args.lines[k] = TIMEOUT
        /\ (args.retry = 0 /\ args.lines[1] = TIMEOUT) =>
             IF args.expect \in {None, <<>>}
             THEN outcome = Returned("response", <<>>)
             ELSE outcome.kind = "raised" /\ outcome.exc = ExpectationFailure

\* C13: when up to 5 blank lines have come before the status line of a session
\* and the result code after it, _session has returned the status of that line
\* and has read the result code.
C13_BlankLinesSkipped ==
    (pc = "called" /\ args.cmd = "_session") =>
        \A k \in 0..5, l \in SessionLists :
            args.reply = [j \in 1..k |-> BLANK] \o
                         <<Line(session_cmd(args.a) \o <<":", " ">> \o FmtList(l)), Line(<<"0">>)>>
            => /\ outcome.kind = "returned"
               /\ sx = SBDIXStatus(l)
               /\ rx = <<>>

\* C18: check_sig_strength has returned d when the modem answered "+CSQF:d"
\* and then "0", and has raised DeviceError after any other answer.
C18_OnlyDeviceError ==
    (pc = "called" /\ args.cmd = "check_sig_strength") =>
        /\ \A d \in 0..5 :
             args.reply = <<Line(<<"+", "C", "S", "Q", "F", ":">> \o FmtInt(d)), Line(<<"0">>)>>
             => outcome = Returned("check_sig_strength", <<d>>)
        /\ args.reply \notin CSQFGood =>
             outcome.kind = "raised" /\ outcome.exc.type = "DeviceError"

\* the header and the content line a call of _read_msg_from_buffer was given,
\* as response hands them on
GivenHeader == Strip(args.reply[1])

GivenCont == Strip(args.reply[2])

EndsInZero(cont) == cont # <<>> /\ cont[Len(cont)] = "0"

\* C20: _read_msg_from_buffer(expected_len) has accepted the content line cont,
\* logged the message and issued +SBDD1, if and only if cont ends in '0' and no
\* length was expected or Len(cont) = expected_len + 1; when it has rejected cont
\* it has raised IncorrectContentLength, logged nothing and issued no +SBDD1; and
\* without the +SBDRT header it has raised DeviceError and left the content
\* line unread.
C20_AcceptIff ==
    (pc = "called" /\ args.cmd = "_read_msg_from_buffer") =>
        IF Prefix(GivenHeader, 7) # <<"+", "S", "B", "D", "R", "T", ":">>
        THEN /\ outcome.kind = "raised"
             /\ outcome.exc.type = "DeviceError"
             /\ rx = <<args.reply[2]>>
             /\ msg_log.lines = <<>>
             /\ ~Issued(txt_SBDD1)
        ELSE args.reply[2] # TIMEOUT =>
             IF EndsInZero(GivenCont) /\ (args.mt_len = -1 \/ Len(GivenCont) = args.mt_len + 1)
             THEN /\ msg_log.lines = <<InLine(DropLast(GivenCont))>>
                  /\ LastIs(txt_SBDD1)
                  /\ outcome.kind = "returned" => outcome.value = DropLast(GivenCont)
                  /\ outcome.kind = "raised" => outcome.exc = ExpectationFailure
             ELSE /\ outcome.kind = "raised"
                  /\ outcome.exc = IncorrectContentLengthError(args.mt_len)
                  /\ msg_log.lines = <<>>
                  /\ ~Issued(txt_SBDD1)

\* a content line that ends in '0' has been rejected for its length
C20_Witness ==
    /\ pc = "called"
    /\ args.cmd = "_read_msg_from_buffer"
    /\ EndsInZero(GivenCont)
    /\ args.mt_len = 3
    /\ outcome.exc = IncorrectContentLengthError(3)
    /\ ~Issued(txt_SBDD1)

\* the place of a command in the sequence of send_recv; 0 for the events that
\* are none of the six
Phase(e) ==
    IF IsCmd(e, cmd_SBDWT) THEN 1
    ELSE IF IsCmd(e, cmd_MSSTM) THEN 2
    ELSE IF IsCmd(e, cmd_CSQF) THEN 3
    ELSE IF IsCmd(e, cmd_SBDSX) THEN 4
    ELSE IF IsCmd(e, cmd_SBDIX) THEN 5
    ELSE IF IsCmd(e, txt_SBDD0) THEN 6
    ELSE 0

\* C14: in send_recv the commands are issued in the order +SBDWT, -MSSTM (at
\* most 20), +CSQF (at most 3), +SBDSX, +SBDIX (at most 3), +SBDD0, none
\* without the one before it, and all of them when send_recv has returned; and
\* no +SBDIX has been issued unless the modem's last -MSSTM answer gave a network
\* time and its last +CSQF answer, after that, a signal of at least 2.
C14_SendOrder ==
    op = "send_recv" =>
        /\ \A j \in 1..Len(trace), k \in 1..Len(trace) :
             (j < k /\ Phase(trace[j]) > 0 /\ Phase(trace[k]) > 0)
             => Phase(trace[j]) <= Phase(trace[k])
        /\ CountCmd(trace, cmd_SBDWT) <= 1
        /\ CountCmd(trace, cmd_MSSTM) <= 20
        /\ CountCmd(trace, cmd_CSQF) <= 3
        /\ CountCmd(trace, cmd_SBDSX) <= 1
        /\ CountCmd(trace, cmd_SBDIX) <= 3
        /\ CountCmd(trace, txt_SBDD0) <= 1
        /\ \A k \in 1..Len(trace) :
             Phase(trace[k]) > 1 =>
                \E j \in 1..(k - 1) : Phase(trace[j]) = Phase(trace[k]) - 1
        /\ SendReturned => Issued(txt_SBDD0)
        /\ Issued(cmd_SBDIX) => (modem.time /\ modem.signal >= 2)

\* send_recv has returned after two -MSSTM, two +CSQF and two +SBDIX
C14_Witness ==
    /\ SendReturned
    /\ CountCmd(trace, cmd_MSSTM) = 2
    /\ CountCmd(trace, cmd_CSQF) = 2
    /\ CountCmd(trace, cmd_SBDIX) = 2

\* C15: _send_buffer issues at most 3 sessions, all +SBDIX and none +SBDIXA,
\* and when it has returned the last session reported mo <= 4.
C15_State ==
    op = "send_recv" =>
        /\ CountCmd(trace, cmd_SBDIX) <= 3
        /\ CountCmd(trace, cmd_SBDIXA) = 0
        /\ SendReturned => (sx.mo <= 4 /\ CountCmd(trace, cmd_SBDIX) >= 1)

\* C15: a session is issued only if it is the first or the one before it
\* reported mo > 4; after a session that reported 5 and was not the third
\* another follows, and after one that reported 4 none.
C15_Step ==
    /\ (op = "send_recv" /\ CountCmd(trace', cmd_SBDIX) > CountCmd(trace, cmd_SBDIX)) =>
         /\ CountCmd(trace', cmd_SBDIX) = CountCmd(trace, cmd_SBDIX) + 1
         /\ CountCmd(trace, cmd_SBDIX) = 0 \/ sx.mo > 4
    /\ (pc = "session_mo" /\ sx.mo = 5 /\ CountCmd(trace, cmd_SBDIX) < 3) => pc' = "session"
    /\ (pc = "session_mo" /\ sx.mo = 4) => pc' = "clear_mo"

C15_StopsAtFirstSuccess == []C15_State /\ [][C15_Step]_vars

\* _send_buffer has returned after the third session, the first to report mo <= 4
C15_Witness == SendReturned /\ CountCmd(trace, cmd_SBDIX) = 3 /\ sx.mo = 4

\* an iteration of the loop of recv_all is under way or has raised: the trace
\* holds what it has issued, and status the status its branch was chosen on
InIteration ==
    /\ op = "recv_all"
    /\ outcome.kind # "returned"
    /\ pc # "drain"
    /\ trace # <<>>
    /\ ~IsCmd(trace[1], cmd_SBDSX)

\* the place of a command in an iteration that runs a session
Step(e) ==
    IF IsCmd(e, cmd_MSSTM) THEN 1
    ELSE IF IsCmd(e, cmd_CSQF) THEN 2
    ELSE IF IsCmd(e, cmd_SBDIX) \/ IsCmd(e, cmd_SBDIXA) THEN 3
    ELSE 0

\* C16: an iteration of the loop of recv_all on a status with mt = 1 begins
\* with +SBDRT and issues no -MSSTM, +CSQF or session; on any other status it
\* issues -MSSTM, then +CSQF, then sessions that are +SBDIXA if status.ra = 1 and
\* +SBDIX if not; nothing is issued after the +SBDSX of an iteration, and that
\* query is the last command when the loop makes its test.
C16_DrainBranches ==
    /\ InIteration =>
        /\ IF status.mt = 1
           THEN /\ IsCmd(trace[1], cmd_SBDRT)
                /\ \A k \in 1..Len(trace) : Step(trace[k]) = 0
           ELSE /\ IsCmd(trace[1], cmd_MSSTM)
                /\ \A j \in 1..Len(trace), k \in 1..Len(trace) :
                     (j < k /\ Step(trace[j]) > 0 /\ Step(trace[k]) > 0)
                     => Step(trace[j]) <= Step(trace[k])
                /\ Issued(cmd_SBDIX) \/ Issued(cmd_SBDIXA) => Issued(cmd_CSQF)
                /\ Issued(cmd_SBDIXA) => status.ra = 1
                /\ Issued(cmd_SBDIX) => status.ra # 1
        /\ \A k \in 1..Len(trace) :
             IsCmd(trace[k], cmd_SBDSX) => \A j \in (k + 1)..Len(trace) : IsSleep(trace[j])
    /\ (op = "recv_all" /\ pc = "drain") => LastIs(cmd_SBDSX)

\* an iteration on a ring alert has run -MSSTM, +CSQF and +SBDIXA, read the
\* message and is about to query the status
C16_Witness ==
    /\ InIteration
    /\ pc = "recv_status"
    /\ status.ra = 1
    /\ Issued(cmd_SBDIXA)
    /\ LastIs(txt_SBDD1)

IsSession(e) == IsCmd(e, cmd_SBDIX) \/ IsCmd(e, cmd_SBDIXA)

\* event k of the trace is a sleep of one second right after a session
SessionSleepAt(k) == k > 1 /\ IsSession(trace[k - 1]) /\ IsSleep(trace[k]) /\ trace[k].secs = 1

Sessions(t) == Cardinality({k \in 1..Len(t) : IsSession(t[k])})

\* C17: _recv_buffer runs at most 3 sessions and reads the MT only after a
\* session that reported mt = 1, with that session's mt_len; it sleeps only
\* between attempts, at most twice and never after the third session; and when
\* it has raised Timeout("Buffer recv", 3) no +SBDRT has been issued.
C17_SleepsBetweenAttempts ==
    (InIteration /\ status.mt # 1) =>
        /\ Sessions(trace) <= 3
        /\ Cardinality({k \in 1..Len(trace) : SessionSleepAt(k)}) <= 2
        /\ \A k \in 1..Len(trace) : SessionSleepAt(k) => Sessions(SubSeq(trace, 1, k)) < 3
        /\ (Issued(cmd_SBDRT) /\ ~Issued(cmd_SBDSX)) => (sx.mt = 1 /\ mt_len = sx.mt_len)
        /\ outcome.exc = Exc("RBTimeoutError", "Buffer recv", 3) =>
             (outcome.kind = "raised" /\ ~Issued(cmd_SBDRT) /\ Sessions(trace) = 3)

\* C19: while the recv loop runs SIGINT is handled by _stop_recv, and during
\* send_recv it is ignored; no KeyboardInterrupt is raised in either.
C19_State ==
    /\ (op = "recv_all" \/ pc \in {"recv_loop", "recv_all", "recv_sleep"}) =>
         handler = "_stop_recv"
    /\ op = "send_recv" => (handler = "SIG_IGN" /\ run)
    /\ outcome.exc.type = "KeyboardInterrupt" =>
         (op \in {"none", "__init__"} /\ handler = "SIG_DFL")

\* C19: a step that clears the flag changes nothing else, so a recv_all in
\* progress goes on; the recv side leaves the loop only at the test of the
\* flag, which sends main to rb.close() when the flag is clear and to another
\* recv_all when it is not; and rb.close() ends with the port closed or raises.
C19_Step ==
    /\ run' # run =>
         /\ handler = "_stop_recv"
         /\ ~run'
         /\ UNCHANGED <<pc, op, ret, args, modem, rx, trace, msg_log, port, handler, polls,
                        i, status, sx, mt_len, incidental_recv, recv, outcome>>
    /\ (pc = "recv_loop" /\ ~run) => pc' = "close"
    /\ (pc = "recv_loop" /\ run /\ pc' # pc) => pc' = "recv_all"
    /\ (args.cmd = "recv" /\ pc' = "close" /\ pc # "close") => (pc = "recv_loop" /\ ~run)
    /\ (pc = "close" /\ pc' = "exit") => (~port'.open /\ port'.closes = port.closes + 1)

C19_SigintSetsFlag == []C19_State /\ [][C19_Step]_vars

\* the flag was cleared, the loop ended after a recv_all that read a message,
\* and the driver was closed
C19_Witness ==
    /\ args.cmd = "recv"
    /\ ~run
    /\ recv # <<>>
    /\ pc = "exit"
    /\ port.closes = 1

=============================================================================
